---- MODULE Spec2Model ----
(***************************************************************************)
(* A CHIP-8 interpreter (src/src/main.rs): the Chip8 aggregate, its        *)
(* fetch/execute cycle and the host loop of main() that drives it.         *)
(*                                                                         *)
(* The program file is the input: Init draws the path given on the command *)
(* line from a bounded file system (Paths, FileContent), and the machine   *)
(* then runs the bytes found there.  Keys, the random byte of Cxkk and the *)
(* window being closed are drawn from small sets where the code reads them.*)
(***************************************************************************)
EXTENDS Integers, Sequences, FiniteSets, TLC

\* ------------------------------------------------------------- constants

DISPLAY_HEIGHT == 32
DISPLAY_WIDTH == 64
DISPLAY_SIZE == DISPLAY_HEIGHT * DISPLAY_WIDTH
FONTSET_OFFSET == \h50
MEMORY_SIZE == 4096
PROGRAM_START == \h200
NUM_REGISTERS == 16
NUM_KEYS == 16
COUNTER_WRAP == 1000
TIMER_PERIOD == 32
CYCLE_PERIOD == 4
VF_THRESHOLD == 1000
ASCII_ZERO == 48

FONTSET ==
    << \hF0, \h90, \h90, \h90, \hF0,
       \h20, \h60, \h20, \h20, \h70,
       \hF0, \h10, \hF0, \h80, \hF0,
       \hF0, \h10, \hF0, \h10, \hF0,
       \h90, \h90, \hF0, \h10, \h10,
       \hF0, \h80, \hF0, \h10, \hF0,
       \hF0, \h80, \hF0, \h90, \hF0,
       \hF0, \h10, \h20, \h40, \h40,
       \hF0, \h90, \hF0, \h90, \hF0,
       \hF0, \h90, \hF0, \h10, \hF0,
       \hF0, \h90, \hF0, \h90, \h90,
       \hE0, \h90, \hE0, \h90, \hE0,
       \hF0, \h80, \h80, \h80, \hF0,
       \hE0, \h90, \h90, \h90, \hE0,
       \hF0, \h80, \hF0, \h80, \hF0,
       \hF0, \h80, \hF0, \h80, \h80 >>

\* ---------------------------------------------------- machine arithmetic

U8(n) == n % 256
U16(n) == n % 65536

RECURSIVE BitAnd(_, _)
BitAnd(a, b) ==
    IF a = 0 \/ b = 0 THEN 0
    ELSE (a % 2) * (b % 2) + 2 * BitAnd(a \div 2, b \div 2)

RECURSIVE BitOr(_, _)
BitOr(a, b) ==
    IF a = 0 THEN b
    ELSE IF b = 0 THEN a
    ELSE (IF a % 2 = 1 \/ b % 2 = 1 THEN 1 ELSE 0) + 2 * BitOr(a \div 2, b \div 2)

RECURSIVE BitXor(_, _)
BitXor(a, b) ==
    IF a = 0 THEN b
    ELSE IF b = 0 THEN a
    ELSE ((a + b) % 2) + 2 * BitXor(a \div 2, b \div 2)

\* fn extract: (opcode & pattern) >> shift * 4
extract(op, pattern, shift) == BitAnd(op, pattern) \div (2 ^ (shift * 4))

\* fn extract_usize
extract_usize(op, pattern, shift) == extract(op, pattern, shift)

\* subtract with the flag also raised when the operands are equal.
subtract_ge(minuend, subtrahend) ==
    << (minuend - subtrahend + 256) % 256,
       IF minuend >= subtrahend THEN 1 ELSE 0 >>

\* fn subtract: the difference is taken in i16 and cast to u8 (two's
\* complement truncation); carry is minuend > subtrahend.
subtract(minuend, subtrahend) ==
    << (minuend - subtrahend + 256) % 256,
       IF minuend > subtrahend THEN 1 ELSE 0 >>

\* u8::reverse_bits
RECURSIVE ReverseFrom(_, _)
ReverseFrom(byte, k) ==
    IF k = 0 THEN 0
    ELSE (byte % 2) * (2 ^ (k - 1)) + ReverseFrom(byte \div 2, k - 1)

reverse_bits(byte) == ReverseFrom(byte, 8)

\* BitIter::from(n): the positions of the set bits of n, least significant
\* first.
RECURSIVE BitIterFrom(_, _)
BitIterFrom(n, k) ==
    IF n = 0 THEN << >>
    ELSE IF n % 2 = 1 THEN << k >> \o BitIterFrom(n \div 2, k + 1)
    ELSE BitIterFrom(n \div 2, k + 1)

BitIter(n) == BitIterFrom(n, 0)

\* u8::to_string: the ASCII codes of the decimal digits, no leading zero.
RECURSIVE to_string(_)
to_string(n) ==
    IF n < 10 THEN << ASCII_ZERO + n >>
    ELSE Append(to_string(n \div 10), ASCII_ZERO + (n % 10))

\* ------------------------------------------------------------ the input

\* Bounds of the input space: the deepest call stack a program may build,
\* and by how many bytes a file may exceed the room above 0x200.
MaxStack == 3
MaxExcess == 2

RegSample == {0, 1, 15}
ByteSample == {0, 1, 128, 255}
KeySets == { {}, {2, 7} }
RandSample == {\h0F, \hA5}
AluOps == {0, 1, 2, 3, 4, 5, 6, 7, 8, \hE}
XSample == {0, 60, 70}
YSample == {0, 1, 5, 30, 40, 250}
SpriteAddrs == {\h050, \h055, \h200, \hFFE}
RowSample == {0, 1, 5, 15}
BcdSample == {0, 5, 10, 99, 100, 255}
StoreAddrs == {\h050, \h200, \h300, \hFF0, \hFF8}
SkipWords == {\h3001, \h4001, \h5010, \h5011, \h9010, \h9011, \hE09E, \hE0A1,
              \hE19E, \hE1A1}
BadWords == {\h0000, \h0123, \h01E0, \h02EE, \h5012, \h901F, \h8018, \h801F,
             \hE000, \hE09F, \hF000, \hF0FF, \hF056}

Word(a, b, c, d) == a * 4096 + b * 256 + c * 16 + d

\* The bytes of a program given as 16-bit words, big-endian.
WordsToBytes(ws) ==
    [k \in 1..(2 * Len(ws)) |->
        IF k % 2 = 1 THEN ws[(k + 1) \div 2] \div 256 ELSE ws[k \div 2] % 256]

\* Hand-written programs.
Programs ==
    << \* 1: nested calls and returns, then a second call of the same routine
       << \h2206, \h2206, \h0000, \h220A, \h00EE, \h00EE >>,
       \* 2: a routine that calls itself
       << \h2200 >>,
       \* 3: return with nothing to return to
       << \h00EE >>,
       \* 4: wait for a key, then use it
       << \h6309, \hF30A, \hF329, \hD005 >>,
       \* 5: timers set, then polled in a loop
       << \h6003, \hF015, \h6102, \hF118, \hF207, \h1208 >>,
       \* 6: draw, clear, draw again
       << \hA050, \hD005, \h00E0, \hD005 >>,
       \* 7: two glyphs that overlap, the second drawn twice
       << \hA050, \hD235, \h6002, \h6101, \hA05A, \hD015, \hD015 >>,
       \* 8: index arithmetic around the flag threshold
       << \hA3E0, \h6008, \hF01E, \hF01E, \h6FFF, \hFF1E >>,
       \* 9: registers stored and loaded back
       << \h6011, \h6122, \h6233, \hA300, \hF155, \h6000, \h6100, \h6200,
          \hF265, \hF055 >>,
       \* 10: a store that runs past the end of memory
       << \h6011, \h6122, \hAFFF, \hF155 >>,
       \* 11: a load that runs past the end of memory
       << \hAFFE, \hF265 >>,
       \* 12: decimal digits written at the end of memory
       << \h60FF, \hAFFE, \hF033 >>,
       \* 13: decimal digits written over earlier ones
       << \h60FF, \hA300, \hF033, \h6105, \hF133, \h620A, \hF233 >>,
       \* 14: jumps past the program
       << \h6004, \hB202, \h6001, \h1FFF >>,
       \* 15: a computed jump out of memory
       << \h60FF, \hBFFF >>,
       \* 16: random bytes
       << \hC0FF, \hC10F, \h8010 >>,
       \* 17: glyph lookup and draw for a value above 15
       << \h60A7, \hF029, \h6100, \hD115 >>,
       \* 18: a counted loop with an add and a skip
       << \h6000, \h7040, \h3000, \h1202, \h7FFF >>,
       \* 19: decimal digits written into the font
       << \h60FF, \hA050, \hF033, \h6000, \hF029, \hD115 >>,
       \* 20: decimal digits of a one-digit value, I left at 0
       << \h6005, \hF033 >>,
       \* 21: a call, its return, and one return more
       << \h2204, \h00EE, \h00EE >>,
       \* 22: 255 added to I = 0xFFF, 242 times
       << \hAFFF, \h60FF, \h6100, \hF01E, \h7101, \h31F2, \h1206 >>,
       \* 23: the sound timer set again and again
       << \h6002, \hF018, \h1202 >>,
       \* 24: the sound timer set once, to 0 and to 5, then an idle loop
       << \h6000, \hF018, \h6105, \hF118, \h1208 >> >>

\* A file longer than the room above 0x200 by `excess` bytes: zero bytes
\* all through, except the last byte that fits and the bytes past it.
BigFile(excess) ==
    LET room == MEMORY_SIZE - PROGRAM_START
    IN  [k \in 1..(room + excess) |-> IF k < room THEN 0 ELSE \hA0 + (k - room)]

AluPaths ==
    {<<"alu", x, y, a, b, n>> :
        x \in RegSample, y \in RegSample, a \in ByteSample, b \in ByteSample,
        n \in AluOps}

DrawPaths ==
    {<<"draw", a, b, nnn, n>> :
        a \in XSample, b \in YSample, nnn \in SpriteAddrs, n \in RowSample}

BcdPaths == {<<"bcd", d>> : d \in BcdSample}

SkipPaths ==
    {<<"skip", a, b, w>> : a \in ByteSample, b \in ByteSample, w \in SkipWords}

AddPaths == {<<"add", a, kk>> : a \in ByteSample, kk \in ByteSample}

BadPaths == {<<"bad", w>> : w \in BadWords}

BigPaths == {<<"big", e>> : e \in 0..MaxExcess}

StorePaths == {<<"store", x, nnn>> : x \in RegSample, nnn \in StoreAddrs}

ProgramPaths == {<<"program", k>> : k \in 1..Len(Programs)}

Paths ==
    AluPaths \cup DrawPaths \cup BcdPaths \cup SkipPaths \cup AddPaths
        \cup BadPaths \cup BigPaths \cup StorePaths \cup ProgramPaths
        \cup {<<"missing">>}

NoFile == <<"no such file">>

\* What the file system holds at a path: a byte sequence, or NoFile.
FileContent(path) ==
    CASE path[1] = "alu" ->
           WordsToBytes(<< Word(6, path[2], 0, 0) + path[4],
                           Word(6, path[3], 0, 0) + path[5],
                           Word(8, path[2], path[3], path[6]) >>)
      [] path[1] = "draw" ->
           WordsToBytes(<< \h6000 + path[2], \h6100 + path[3], \hA000 + path[4],
                           \hD010 + path[5], \hD010 + path[5], \hD010 + path[5] >>)
      [] path[1] = "bcd" ->
           WordsToBytes(<< \h6000 + path[2], \hA300, \hF033 >>)
      [] path[1] = "skip" ->
           WordsToBytes(<< \h6000 + path[2], \h6100 + path[3], path[4],
                           \h6201, \h6302 >>)
      [] path[1] = "add" ->
           WordsToBytes(<< \h6000 + path[2], \h7000 + path[3] >>)
      [] path[1] = "bad" ->
           WordsToBytes(<< \h6001, \h6101, path[2], \h6201, \h6302 >>)
      [] path[1] = "big" -> BigFile(path[2])
      [] path[1] = "store" ->
           WordsToBytes(<< \h6011, \h6122, \h6F33, \hA000 + path[3],
                           Word(\hF, path[2], 5, 5), \h6000, \h6100, \h6F00,
                           Word(\hF, path[2], 6, 5) >>)
      [] path[1] = "program" -> WordsToBytes(Programs[path[2]])
      [] OTHER -> NoFile

\* ------------------------------------------------------------ the state

VARIABLES
    file,           \* args[1]: the path of the program file
    opcode, memory, v, i, pc, gfx, stack, key,
    draw_flag, delay_timer, sound_timer,     \* struct Chip8
    counter,        \* main: the loop counter
    window,         \* the pixels the window shows (update_screen)
    sink,           \* the audio sink: "none", "playing" or "paused"
    pos,            \* the statement of main() to run next
    fault,          \* the panic message, "none" while running
    calls,          \* history: the call sites of the pending 2nnn calls
    hist            \* history: what has run so far (see NoHistory)

\* memory: [u8; 4096] is kept as the function from the addresses that hold a
\* nonzero byte to that byte; every other address of 0..4095 holds 0.
ZeroMemory == [a \in {} |-> 0]

Mem(mem, a) == IF a \in DOMAIN mem THEN mem[a] ELSE 0

\* memory[first + k - 1] = bytes[k] for every k in 1..Len(bytes)
MemWriteAll(mem, first, bytes) ==
    LET written == first..(first + Len(bytes) - 1)
        nonzero == {a \in written : bytes[a - first + 1] # 0}
    IN  [a \in ((DOMAIN mem) \ written) \cup nonzero |->
            IF a \in written THEN bytes[a - first + 1] ELSE mem[a]]

\* gfx: [bool; DISPLAY_SIZE] is kept as the set of the indices that are true.
BlankDisplay == {}

Pixel(g, p) == p \in g

chip == <<opcode, memory, v, i, pc, gfx, stack, key,
          draw_flag, delay_timer, sound_timer>>
host == <<counter, window, sink>>
vars == <<file, chip, host, pos, fault, calls, hist>>

\* The history before anything has run.
\*   called, returned: the 2nnn and the 00EE completed so far;
\*   font_written: an Fx33 or Fx55 has written into 0x050..0x09F;
\*   ticked: a timer tick has happened; iterations, cycles: the loop
\*     iterations ended and the instruction cycles begun since the last one;
\*   sounded: an Fx18 has run; sound: the value the last one gave the sound
\*     timer; ticks: the timer ticks since, counted up to sound + 1.
NoHistory ==
    [called |-> 0, returned |-> 0, font_written |-> FALSE,
     ticked |-> FALSE, iterations |-> 0, cycles |-> 0,
     sounded |-> FALSE, sound |-> 0, ticks |-> 0]

\* Chip8::new, with the command line read.
Init ==
    /\ file \in Paths
    /\ opcode = 0
    /\ memory = ZeroMemory
    /\ v = [r \in 0..(NUM_REGISTERS - 1) |-> 0]
    /\ i = 0
    /\ pc = PROGRAM_START
    /\ gfx = BlankDisplay
    /\ stack = << >>
    /\ key = [k \in 0..(NUM_KEYS - 1) |-> FALSE]
    /\ draw_flag = FALSE
    /\ delay_timer = 0
    /\ sound_timer = 0
    /\ counter = 0
    /\ window = {}
    /\ sink = "none"
    /\ pos = "init"
    /\ fault = "none"
    /\ calls = << >>
    /\ hist = NoHistory

Panic(msg) ==
    /\ pos' = "panic"
    /\ fault' = msg

\* Chip8::init
init ==
    /\ pos = "init"
    /\ memory' = MemWriteAll(memory, FONTSET_OFFSET, FONTSET)
    /\ pos' = "load_game"
    /\ UNCHANGED <<file, opcode, v, i, pc, gfx, stack, key, draw_flag,
                   delay_timer, sound_timer, host, fault, calls, hist>>

\* Read::read into memory[0x200..]: one read fills the buffer with as many
\* bytes as the file has, at most the buffer's length.
ReadInto(mem, bytes) ==
    LET room == MEMORY_SIZE - PROGRAM_START
        n == IF Len(bytes) < room THEN Len(bytes) ELSE room
    IN  MemWriteAll(mem, PROGRAM_START, SubSeq(bytes, 1, n))

\* Chip8::load_game
load_game ==
    /\ pos = "load_game"
    /\ IF FileContent(file) = NoFile
       THEN /\ Panic("File not found!")
            /\ UNCHANGED memory
       ELSE /\ memory' = ReadInto(memory, FileContent(file))
            /\ pos' = "setup"
            /\ UNCHANGED fault
    /\ UNCHANGED <<file, opcode, v, i, pc, gfx, stack, key, draw_flag,
                   delay_timer, sound_timer, host, calls, hist>>

\* main: the window, the audio sink (which plays once a source is appended)
\* and the loop counter.
StartHost ==
    /\ pos = "setup"
    /\ window' = {}
    /\ sink' = "playing"
    /\ counter' = 0
    /\ pos' = "loop_top"
    /\ UNCHANGED <<file, chip, fault, calls, hist>>

NextCounter(c) == IF c = COUNTER_WRAP THEN 0 ELSE c + 1

\* A timer stepped down with no test for 0: the u8 wraps to 255.
CountDown_wrapping(timer) == U8(timer + 255)

\* main: `if timer > 0 { timer -= 1 }`
CountDown(timer) == IF timer > 0 THEN timer - 1 ELSE timer

\* A tone that is never paused.
Tone_playing(timer) == "playing"

\* main: sink.play() if the sound timer is above 0, sink.pause() otherwise.
Tone(timer) == IF timer > 0 THEN "playing" ELSE "paused"

\* main: the 60 Hz block of an iteration whose counter is a multiple of 32.
TimerTick ==
    /\ pos = "loop_top"
    /\ counter % TIMER_PERIOD = 0
    /\ \E open \in BOOLEAN :
        IF ~open
        THEN /\ pos' = "exit"
             /\ UNCHANGED <<delay_timer, sound_timer, sink, hist>>
        ELSE /\ delay_timer' = CountDown(delay_timer)
             /\ sink' = Tone(sound_timer)
             /\ sound_timer' = CountDown(sound_timer)
             /\ hist' = [hist EXCEPT !.ticked = TRUE, !.iterations = 0,
                                      !.cycles = 0,
                                      !.ticks = IF ~hist.sounded THEN 0
                                                ELSE IF @ > hist.sound THEN @
                                                ELSE @ + 1]
             /\ pos' = "cycle"
    /\ UNCHANGED <<file, opcode, memory, v, i, pc, gfx, stack, key, draw_flag,
                   counter, window, fault, calls>>

\* main: an iteration that runs neither block; only the counter moves.
Idle ==
    /\ pos = "loop_top"
    /\ counter % CYCLE_PERIOD # 0
    /\ counter' = NextCounter(counter)
    /\ hist' = [hist EXCEPT !.iterations = @ + 1]
    /\ UNCHANGED <<file, chip, window, sink, pos, fault, calls>>

AtCycle ==
    IF pos = "cycle" THEN TRUE
    ELSE pos = "loop_top" /\ counter % TIMER_PERIOD # 0 /\ counter % CYCLE_PERIOD = 0

\* update_keys
update_keys(down) == [k \in 0..(NUM_KEYS - 1) |-> k \in down]

\* main: update_keys, then Chip8::fetch_opcode.
Fetch ==
    /\ AtCycle
    /\ \E down \in KeySets : key' = update_keys(down)
    /\ IF pc + 1 >= MEMORY_SIZE
       THEN /\ Panic("index out of bounds")
            /\ UNCHANGED <<opcode, pc>>
       ELSE /\ opcode' = Mem(memory, pc) * 256 + Mem(memory, pc + 1)
            /\ pc' = pc + 2
            /\ pos' = "emulate"
            /\ UNCHANGED fault
    /\ hist' = [hist EXCEPT !.cycles = @ + 1]
    /\ UNCHANGED <<file, memory, v, i, gfx, stack, draw_flag,
                   delay_timer, sound_timer, host, calls>>

\* update_screen: the pixels drawn, one rectangle per true flag.
update_screen(g) == {p \in 0..(DISPLAY_SIZE - 1) : Pixel(g, p)}

\* main: the redraw after a cycle, then the counter step ending the iteration.
Redraw ==
    /\ pos = "redraw"
    /\ IF draw_flag
       THEN /\ window' = update_screen(gfx)
            /\ draw_flag' = FALSE
       ELSE UNCHANGED <<window, draw_flag>>
    /\ counter' = NextCounter(counter)
    /\ pos' = "loop_top"
    /\ hist' = [hist EXCEPT !.iterations = @ + 1]
    /\ UNCHANGED <<file, opcode, memory, v, i, pc, gfx, stack, key,
                   delay_timer, sound_timer, sink, fault, calls>>

\* ---------------------------------------------------------- emulate_cycle

Family == extract(opcode, \hF000, 3)
X == extract_usize(opcode, \h0F00, 2)
Y == extract_usize(opcode, \h00F0, 1)
KK == extract(opcode, \h00FF, 0)
NNN == extract(opcode, \h0FFF, 0)
N == extract(opcode, \h000F, 0)

\* Chip8::v_opcode
v_opcode(op, pattern, shift) == v[extract_usize(op, pattern, shift)]

Retire ==
    /\ pos' = "redraw"
    /\ UNCHANGED fault

\* fn invalid_opcode, from each `_ =>` arm of the dispatch.
NoArm ==
    \/ Family = 0 /\ KK \notin {\hE0, \hEE}
    \/ Family = 8 /\ N \notin {0, 1, 2, 3, 4, 5, 6, 7, \hE}
    \/ Family = \hE /\ KK \notin {\h9E, \hA1}
    \/ Family = \hF /\ KK \notin {\h07, \h15, \h18, \h1E, \h0A, \h29, \h33, \h55, \h65}

invalid_opcode ==
    /\ pos = "emulate"
    /\ NoArm
    /\ Panic("OpCode not found")
    /\ UNCHANGED <<file, chip, host, calls, hist>>

\* 6xkk
Exec6xkk ==
    /\ pos = "emulate"
    /\ Family = 6
    /\ v' = [v EXCEPT ![X] = U8(KK)]
    /\ Retire
    /\ UNCHANGED <<file, opcode, memory, i, pc, gfx, stack, key, draw_flag,
                   delay_timer, sound_timer, host, calls, hist>>

\* 8xy4 with the carry taken one too late.
Add8xy4_late(regs, x, y) ==
    LET result == regs[x] + regs[y]
        flagged == [regs EXCEPT ![\hF] = IF result > 256 THEN 1 ELSE 0]
    IN  [flagged EXCEPT ![x] = U8(result)]

\* 8xy4: the flag is written first, the sum second.
Add8xy4(regs, x, y) ==
    LET result == regs[x] + regs[y]
        flagged == [regs EXCEPT ![\hF] = IF result > 255 THEN 1 ELSE 0]
    IN  [flagged EXCEPT ![x] = U8(result)]

\* 8xy5
Sub8xy5(regs, x, y) ==
    LET dc == subtract(regs[x], regs[y])
        flagged == [regs EXCEPT ![\hF] = dc[2]]
    IN  [flagged EXCEPT ![x] = dc[1]]

\* 8xy7
Sub8xy7(regs, x, y) ==
    LET dc == subtract(regs[y], regs[x])
        flagged == [regs EXCEPT ![\hF] = dc[2]]
    IN  [flagged EXCEPT ![x] = dc[1]]

\* 8xy6
Shr8xy6(regs, x) ==
    LET flagged == [regs EXCEPT ![\hF] = BitAnd(regs[x], 1)]
    IN  [flagged EXCEPT ![x] = flagged[x] \div 2]

\* 8xyE with the flag normalized to 1.
Shl8xyE_normalized(regs, x) ==
    LET flagged == [regs EXCEPT ![\hF] = IF regs[x] >= \h80 THEN 1 ELSE 0]
    IN  [flagged EXCEPT ![x] = U8(flagged[x] * 2)]

\* 8xyE
Shl8xyE(regs, x) ==
    LET flagged == [regs EXCEPT ![\hF] = BitAnd(regs[x], \h80)]
    IN  [flagged EXCEPT ![x] = U8(flagged[x] * 2)]

\* 8xy0 .. 8xy7, 8xyE
Alu(regs, x, y, n) ==
    CASE n = 0 -> [regs EXCEPT ![x] = regs[y]]
      [] n = 1 -> [regs EXCEPT ![x] = BitOr(regs[x], regs[y])]
      [] n = 2 -> [regs EXCEPT ![x] = BitAnd(regs[x], regs[y])]
      [] n = 3 -> [regs EXCEPT ![x] = BitXor(regs[x], regs[y])]
      [] n = 4 -> Add8xy4(regs, x, y)
      [] n = 5 -> Sub8xy5(regs, x, y)
      [] n = 6 -> Shr8xy6(regs, x)
      [] n = \hE -> Shl8xyE(regs, x)
      [] n = 7 -> Sub8xy7(regs, x, y)

Exec8xyN ==
    /\ pos = "emulate"
    /\ Family = 8
    /\ N \in {0, 1, 2, 3, 4, 5, 6, 7, \hE}
    /\ v' = Alu(v, X, Y, N)
    /\ Retire
    /\ UNCHANGED <<file, opcode, memory, i, pc, gfx, stack, key, draw_flag,
                   delay_timer, sound_timer, host, calls, hist>>

\* 00E0
Exec00E0 ==
    /\ pos = "emulate"
    /\ Family = 0
    /\ KK = \hE0
    /\ gfx' = BlankDisplay
    /\ Retire
    /\ UNCHANGED <<file, opcode, memory, v, i, pc, stack, key, draw_flag,
                   delay_timer, sound_timer, host, calls, hist>>

\* A pop from the front.
Pop_front(s) == << s[1], SubSeq(s, 2, Len(s)) >>

\* Vec::pop: the last element and the rest.
Pop(s) == << s[Len(s)], SubSeq(s, 1, Len(s) - 1) >>

\* Vec::push
Push(s, e) == Append(s, e)

\* 00EE taking address 0 from an empty stack.
Exec00EE_lenient ==
    /\ pos = "emulate"
    /\ Family = 0
    /\ KK = \hEE
    /\ pc' = IF stack = << >> THEN 0 ELSE Pop(stack)[1]
    /\ stack' = IF stack = << >> THEN stack ELSE Pop(stack)[2]
    /\ calls' = SubSeq(calls, 1, Len(calls) - 1)
    /\ hist' = [hist EXCEPT !.returned = @ + 1]
    /\ Retire
    /\ UNCHANGED <<file, opcode, memory, v, i, gfx, key, draw_flag,
                   delay_timer, sound_timer, host>>

\* 00EE
Exec00EE ==
    /\ pos = "emulate"
    /\ Family = 0
    /\ KK = \hEE
    /\ IF stack = << >>
       THEN /\ Panic("Failed to pop from stack!")
            /\ UNCHANGED <<pc, stack, calls, hist>>
       ELSE /\ pc' = Pop(stack)[1]
            /\ stack' = Pop(stack)[2]
            /\ calls' = SubSeq(calls, 1, Len(calls) - 1)
            /\ hist' = [hist EXCEPT !.returned = @ + 1]
            /\ Retire
    /\ UNCHANGED <<file, opcode, memory, v, i, gfx, key, draw_flag,
                   delay_timer, sound_timer, host>>

\* 1nnn
Exec1nnn ==
    /\ pos = "emulate"
    /\ Family = 1
    /\ pc' = BitAnd(opcode, \h0FFF)
    /\ Retire
    /\ UNCHANGED <<file, opcode, memory, v, i, gfx, stack, key, draw_flag,
                   delay_timer, sound_timer, host, calls, hist>>

\* 2nnn.  calls records, for each pending call, the address the 2nnn was
\* fetched from and the stack it found.
Exec2nnn ==
    /\ pos = "emulate"
    /\ Family = 2
    /\ Len(stack) < MaxStack
    /\ stack' = Push(stack, pc)
    /\ pc' = NNN
    /\ calls' = Append(calls, [site |-> pc - 2, stack |-> stack])
    /\ hist' = [hist EXCEPT !.called = @ + 1]
    /\ Retire
    /\ UNCHANGED <<file, opcode, memory, v, i, gfx, key, draw_flag,
                   delay_timer, sound_timer, host>>

\* The skip arms: pc += 2 when the condition holds.
Skip(cond) ==
    /\ pc' = IF cond THEN pc + 2 ELSE pc
    /\ Retire
    /\ UNCHANGED <<file, opcode, memory, v, i, gfx, stack, key, draw_flag,
                   delay_timer, sound_timer, host, calls, hist>>

\* 3xkk
Exec3xkk ==
    /\ pos = "emulate"
    /\ Family = 3
    /\ Skip(v_opcode(opcode, \h0F00, 2) = U8(KK))

\* 4xkk
Exec4xkk ==
    /\ pos = "emulate"
    /\ Family = 4
    /\ Skip(v_opcode(opcode, \h0F00, 2) # U8(KK))

\* 5xy_: the low nibble is not looked at.
Exec5xy0 ==
    /\ pos = "emulate"
    /\ Family = 5
    /\ Skip(v_opcode(opcode, \h0F00, 2) = v_opcode(opcode, \h00F0, 1))

\* 9xy_: the low nibble is not looked at.
Exec9xy0 ==
    /\ pos = "emulate"
    /\ Family = 9
    /\ Skip(v_opcode(opcode, \h0F00, 2) # v_opcode(opcode, \h00F0, 1))

\* 7xkk: the sum is taken in u16 and cast to u8.
Exec7xkk ==
    /\ pos = "emulate"
    /\ Family = 7
    /\ v' = [v EXCEPT ![X] = U8(v_opcode(opcode, \h0F00, 2) + KK)]
    /\ Retire
    /\ UNCHANGED <<file, opcode, memory, i, pc, gfx, stack, key, draw_flag,
                   delay_timer, sound_timer, host, calls, hist>>

\* Annn
ExecAnnn ==
    /\ pos = "emulate"
    /\ Family = \hA
    /\ i' = NNN
    /\ Retire
    /\ UNCHANGED <<file, opcode, memory, v, pc, gfx, stack, key, draw_flag,
                   delay_timer, sound_timer, host, calls, hist>>

\* Bnnn
ExecBnnn ==
    /\ pos = "emulate"
    /\ Family = \hB
    /\ pc' = NNN + v[0]
    /\ Retire
    /\ UNCHANGED <<file, opcode, memory, v, i, gfx, stack, key, draw_flag,
                   delay_timer, sound_timer, host, calls, hist>>

\* Cxkk
ExecCxkk ==
    /\ pos = "emulate"
    /\ Family = \hC
    /\ \E random \in RandSample : v' = [v EXCEPT ![X] = BitAnd(random, U8(KK))]
    /\ Retire
    /\ UNCHANGED <<file, opcode, memory, i, pc, gfx, stack, key, draw_flag,
                   delay_timer, sound_timer, host, calls, hist>>

\* Ex9E and ExA1: key[Vx], which panics for Vx above 15.
SkipOnKey(pressed) ==
    /\ IF v_opcode(opcode, \h0F00, 2) >= NUM_KEYS
       THEN /\ Panic("index out of bounds")
            /\ UNCHANGED pc
       ELSE /\ pc' = IF key[v_opcode(opcode, \h0F00, 2)] = pressed THEN pc + 2 ELSE pc
            /\ Retire
    /\ UNCHANGED <<file, opcode, memory, v, i, gfx, stack, key, draw_flag,
                   delay_timer, sound_timer, host, calls, hist>>

ExecEx9E ==
    /\ pos = "emulate"
    /\ Family = \hE
    /\ KK = \h9E
    /\ SkipOnKey(TRUE)

ExecExA1 ==
    /\ pos = "emulate"
    /\ Family = \hE
    /\ KK = \hA1
    /\ SkipOnKey(FALSE)

\* The inner loop of Dxyn setting pixels instead of toggling them.
DrawBits_set(bits, x, y, g, vf) ==
    LET stop == {k \in 1..Len(bits) :
                    x + bits[k] >= DISPLAY_WIDTH \/ y >= DISPLAY_HEIGHT}
        last == IF stop = {} THEN Len(bits)
                ELSE (CHOOSE k \in stop : \A j \in stop : k <= j) - 1
        sub_y == IF y = 0 THEN 0 ELSE y - 1
        touched == {sub_y * DISPLAY_WIDTH + x + bits[k] : k \in 1..last}
    IN  << g \cup touched,
           IF touched \cap g # {} THEN 1 ELSE vf >>

\* Dxyn, the inner loop: the set bits of one sprite byte, leftmost first,
\* up to the first one that falls off the grid (break).  The bits of a byte
\* are distinct columns, so the pixels toggled one after the other are the
\* symmetric difference with the display, and VF becomes 1 when one of them
\* was true.  The result is <<display, VF>>.
DrawBits(bits, x, y, g, vf) ==
    LET stop == {k \in 1..Len(bits) :
                    x + bits[k] >= DISPLAY_WIDTH \/ y >= DISPLAY_HEIGHT}
        last == IF stop = {} THEN Len(bits)
                ELSE (CHOOSE k \in stop : \A j \in stop : k <= j) - 1
        sub_y == IF y = 0 THEN 0 ELSE y - 1
        touched == {sub_y * DISPLAY_WIDTH + x + bits[k] : k \in 1..last}
    IN  << (g \ touched) \cup (touched \ g),
           IF touched \cap g # {} THEN 1 ELSE vf >>

\* Dxyn, one pass of the outer loop, for row r.  y + r is a u8 sum: where it
\* leaves the width, a build with overflow checks panics and one without
\* wraps (wraps says which).  memory[I + r] panics past the end of memory;
\* I + r cannot leave u16 before that, as row 0 reads memory[I] first.
DrawRow(r, x, y, idx, mem, st, wraps) ==
    IF y + r > 255 /\ ~wraps
    THEN [st EXCEPT !.fault = "attempt to add with overflow"]
    ELSE IF idx + r >= MEMORY_SIZE
    THEN [st EXCEPT !.fault = "index out of bounds"]
    ELSE LET row == DrawBits(BitIter(reverse_bits(Mem(mem, idx + r))),
                             x, U8(y + r), st.gfx, st.vf)
         IN  [gfx |-> row[1], vf |-> row[2], fault |-> "none"]

\* Dxyn, the outer loop from row r on: it runs until a pass panics.
RECURSIVE DrawRows(_, _, _, _, _, _, _, _)
DrawRows(r, n, x, y, idx, mem, st, wraps) ==
    IF r >= n \/ st.fault # "none" THEN st
    ELSE DrawRows(r + 1, n, x, y, idx, mem,
                  DrawRow(r, x, y, idx, mem, st, wraps), wraps)

\* Dxyn: x and y are read before VF is reset.
DrawSprite(regs, op, idx, mem, g, wraps) ==
    DrawRows(0, extract(op, \h000F, 0),
             regs[extract_usize(op, \h0F00, 2)] % DISPLAY_WIDTH,
             regs[extract_usize(op, \h00F0, 1)],
             idx, mem, [gfx |-> g, vf |-> 0, fault |-> "none"], wraps)

ExecDxyn ==
    /\ pos = "emulate"
    /\ Family = \hD
    /\ \E wraps \in BOOLEAN :
        LET drawn == DrawSprite(v, opcode, i, memory, gfx, wraps)
        IN  /\ v' = [v EXCEPT ![\hF] = drawn.vf]
            /\ gfx' = drawn.gfx
            /\ IF drawn.fault = "none" THEN Retire ELSE Panic(drawn.fault)
    /\ draw_flag' = TRUE
    /\ UNCHANGED <<file, opcode, memory, i, pc, stack, key,
                   delay_timer, sound_timer, host, calls, hist>>

\* Fx07
ExecFx07 ==
    /\ pos = "emulate"
    /\ Family = \hF
    /\ KK = \h07
    /\ v' = [v EXCEPT ![X] = delay_timer]
    /\ Retire
    /\ UNCHANGED <<file, opcode, memory, i, pc, gfx, stack, key, draw_flag,
                   delay_timer, sound_timer, host, calls, hist>>

\* Fx15
ExecFx15 ==
    /\ pos = "emulate"
    /\ Family = \hF
    /\ KK = \h15
    /\ delay_timer' = v_opcode(opcode, \h0F00, 2)
    /\ Retire
    /\ UNCHANGED <<file, opcode, memory, v, i, pc, gfx, stack, key, draw_flag,
                   sound_timer, host, calls, hist>>

\* Fx18
ExecFx18 ==
    /\ pos = "emulate"
    /\ Family = \hF
    /\ KK = \h18
    /\ sound_timer' = v_opcode(opcode, \h0F00, 2)
    /\ hist' = [hist EXCEPT !.sounded = TRUE,
                             !.sound = v_opcode(opcode, \h0F00, 2), !.ticks = 0]
    /\ Retire
    /\ UNCHANGED <<file, opcode, memory, v, i, pc, gfx, stack, key, draw_flag,
                   delay_timer, host, calls>>

\* Fx1E: a u16 sum; where it leaves the width, a build with overflow checks
\* panics and one without wraps.
ExecFx1E ==
    /\ pos = "emulate"
    /\ Family = \hF
    /\ KK = \h1E
    /\ \E wraps \in BOOLEAN :
        LET sum == i + v_opcode(opcode, \h0F00, 2)
        IN  IF sum > 65535 /\ ~wraps
            THEN /\ Panic("attempt to add with overflow")
                 /\ UNCHANGED <<i, v>>
            ELSE /\ i' = U16(sum)
                 /\ v' = [v EXCEPT ![\hF] = IF U16(sum) > VF_THRESHOLD THEN 1 ELSE 0]
                 /\ Retire
    /\ UNCHANGED <<file, opcode, memory, pc, gfx, stack, key, draw_flag,
                   delay_timer, sound_timer, host, calls, hist>>

\* The scan of Fx0A keeping the last pressed key instead of the first.
RECURSIVE FirstKey_last(_, _)
FirstKey_last(keys, k) ==
    IF k >= NUM_KEYS THEN NUM_KEYS
    ELSE IF keys[k] /\ FirstKey_last(keys, k + 1) = NUM_KEYS THEN k
    ELSE FirstKey_last(keys, k + 1)

\* Fx0A, the scan: the index of the first pressed key, or NUM_KEYS.
RECURSIVE FirstKey(_, _)
FirstKey(keys, k) ==
    IF k >= NUM_KEYS THEN NUM_KEYS
    ELSE IF keys[k] THEN k
    ELSE FirstKey(keys, k + 1)

\* Fx0A
ExecFx0A ==
    /\ pos = "emulate"
    /\ Family = \hF
    /\ KK = \h0A
    /\ IF FirstKey(key, 0) < NUM_KEYS
       THEN /\ v' = [v EXCEPT ![X] = FirstKey(key, 0)]
            /\ UNCHANGED pc
       ELSE /\ pc' = pc - 2
            /\ UNCHANGED v
    /\ Retire
    /\ UNCHANGED <<file, opcode, memory, i, gfx, stack, key, draw_flag,
                   delay_timer, sound_timer, host, calls, hist>>

\* Fx29 without the mask on Vx.
ExecFx29_unmasked ==
    /\ pos = "emulate"
    /\ Family = \hF
    /\ KK = \h29
    /\ i' = v_opcode(opcode, \h0F00, 2) * 5 + FONTSET_OFFSET
    /\ Retire
    /\ UNCHANGED <<file, opcode, memory, v, pc, gfx, stack, key, draw_flag,
                   delay_timer, sound_timer, host, calls, hist>>

\* Fx29
ExecFx29 ==
    /\ pos = "emulate"
    /\ Family = \hF
    /\ KK = \h29
    /\ i' = BitAnd(v_opcode(opcode, \h0F00, 2), \h0F) * 5 + FONTSET_OFFSET
    /\ Retire
    /\ UNCHANGED <<file, opcode, memory, v, pc, gfx, stack, key, draw_flag,
                   delay_timer, sound_timer, host, calls, hist>>

\* The addresses Chip8::init fills with the font.
InFont(a) == a >= FONTSET_OFFSET /\ a < FONTSET_OFFSET + Len(FONTSET)

\* memory[first + k] = bytes[k + 1] for k = 0, 1, ... in order, until an
\* index is past the end of memory.
Store(mem, first, bytes) ==
    LET fit == IF first >= MEMORY_SIZE THEN 0
               ELSE IF first + Len(bytes) > MEMORY_SIZE THEN MEMORY_SIZE - first
               ELSE Len(bytes)
    IN  [mem |-> MemWriteAll(mem, first, SubSeq(bytes, 1, fit)),
         font |-> \E a \in first..(first + fit - 1) : InFont(a),
         fault |-> IF fit < Len(bytes) THEN "index out of bounds" ELSE "none"]

\* Fx33: one byte per character of Vx's decimal string.
Bcd(mem, idx, value) ==
    LET num == to_string(value)
    IN  Store(mem, idx, [k \in 1..Len(num) |-> num[k] - ASCII_ZERO])

ExecFx33 ==
    /\ pos = "emulate"
    /\ Family = \hF
    /\ KK = \h33
    /\ LET stored == Bcd(memory, i, v_opcode(opcode, \h0F00, 2))
       IN  /\ memory' = stored.mem
           /\ hist' = [hist EXCEPT !.font_written = @ \/ stored.font]
           /\ IF stored.fault = "none" THEN Retire ELSE Panic(stored.fault)
    /\ UNCHANGED <<file, opcode, v, i, pc, gfx, stack, key, draw_flag,
                   delay_timer, sound_timer, host, calls>>

\* Fx55 stopping before Vx.
StoreRegs_exclusive(mem, idx, regs, x) ==
    Store(mem, idx, [k \in 1..x |-> regs[k - 1]])

\* Fx55: V0..Vx, inclusive
StoreRegs(mem, idx, regs, x) ==
    Store(mem, idx, [k \in 1..(x + 1) |-> regs[k - 1]])

ExecFx55 ==
    /\ pos = "emulate"
    /\ Family = \hF
    /\ KK = \h55
    /\ LET stored == StoreRegs(memory, i, v, extract(opcode, \h0F00, 2))
       IN  /\ memory' = stored.mem
           /\ hist' = [hist EXCEPT !.font_written = @ \/ stored.font]
           /\ IF stored.fault = "none" THEN Retire ELSE Panic(stored.fault)
    /\ UNCHANGED <<file, opcode, v, i, pc, gfx, stack, key, draw_flag,
                   delay_timer, sound_timer, host, calls>>

\* Fx65: V0..Vx, inclusive, until an index is past the end of memory.
LoadRegs(mem, idx, regs, x) ==
    [v |-> [k \in 0..(NUM_REGISTERS - 1) |->
               IF k <= x /\ idx + k < MEMORY_SIZE THEN Mem(mem, idx + k) ELSE regs[k]],
     fault |-> IF idx + x >= MEMORY_SIZE THEN "index out of bounds" ELSE "none"]

ExecFx65 ==
    /\ pos = "emulate"
    /\ Family = \hF
    /\ KK = \h65
    /\ LET loaded == LoadRegs(memory, i, v, extract(opcode, \hF00, 2))
       IN  /\ v' = loaded.v
           /\ IF loaded.fault = "none" THEN Retire ELSE Panic(loaded.fault)
    /\ UNCHANGED <<file, opcode, memory, i, pc, gfx, stack, key, draw_flag,
                   delay_timer, sound_timer, host, calls, hist>>

Next ==
    \/ init
    \/ load_game
    \/ StartHost
    \/ TimerTick
    \/ Idle
    \/ Fetch
    \/ Redraw
    \/ invalid_opcode
    \/ Exec6xkk
    \/ Exec8xyN
    \/ Exec00E0
    \/ Exec00EE
    \/ Exec1nnn
    \/ Exec2nnn
    \/ Exec3xkk
    \/ Exec4xkk
    \/ Exec5xy0
    \/ Exec9xy0
    \/ Exec7xkk
    \/ ExecAnnn
    \/ ExecBnnn
    \/ ExecCxkk
    \/ ExecEx9E
    \/ ExecExA1
    \/ ExecDxyn
    \/ ExecFx07
    \/ ExecFx15
    \/ ExecFx18
    \/ ExecFx1E
    \/ ExecFx0A
    \/ ExecFx29
    \/ ExecFx33
    \/ ExecFx55
    \/ ExecFx65

Spec == Init /\ [][Next]_vars

\* A step of the loop of main, the sprite draw apart.
LoopStep ==
    /\ pos \notin {"init", "load_game", "setup"}
    /\ ~(pos = "emulate" /\ Family = \hD)
    /\ Next

\* The programs run under fairness: the hand-written ones and the skip and
\* store families.
FairInit == Init /\ file \in ProgramPaths \cup SkipPaths \cup StorePaths

\* main waits for nothing but the sleep that ends an iteration, so a step of
\* the loop that can be taken is taken.  Fairness is stated for the steps
\* that the timers and the tone depend on; it asks nothing of a draw.
FairSpec == FairInit /\ [][Next]_vars /\ WF_vars(LoopStep)

\* ------------------------------------------------------------ properties

Executing(family) == pos = "emulate" /\ Family = family
Executed(family) == pos = "redraw" /\ Family = family

\* C1, as stated: for every x, y in 0..F, 8xy4 leaves VF = 1 if Vx + Vy > 255
\* and 0 otherwise, and leaves Vx = (Vx + Vy) mod 256.
C1_AddAnyRegister ==
    [][(Executing(8) /\ N = 4) =>
        /\ v'[\hF] = (IF v[X] + v[Y] > 255 THEN 1 ELSE 0)
        /\ v'[X] = (v[X] + v[Y]) % 256]_vars

\* C1, amended: 8xy4 leaves Vx = (Vx + Vy) mod 256 for every x, y in 0..F;
\* for x other than F it leaves VF = 1 if Vx + Vy > 255 and 0 otherwise; for
\* x = F the sum, written last, is what VF holds.
C1_Add ==
    [][(Executing(8) /\ N = 4) =>
        /\ v'[X] = (v[X] + v[Y]) % 256
        /\ X # \hF => v'[\hF] = (IF v[X] + v[Y] > 255 THEN 1 ELSE 0)
        /\ \A r \in 0..(NUM_REGISTERS - 1) : r \notin {X, \hF} => v'[r] = v[r]]_vars

\* C1: an 8xy4 with x other than F has carried.
C1_Witness ==
    /\ Executed(8) /\ N = 4
    /\ X # \hF
    /\ v[\hF] = 1
    /\ v[X] = 254

\* C2, as stated: for every x, y in 0..F, 8xy5 leaves VF = 1 iff Vx > Vy and
\* leaves Vx = (Vx - Vy) mod 256.
C2_SubAnyRegister ==
    [][(Executing(8) /\ N = 5) =>
        /\ v'[\hF] = (IF v[X] > v[Y] THEN 1 ELSE 0)
        /\ v'[X] = (v[X] - v[Y] + 256) % 256]_vars

\* C2, amended: 8xy5 leaves Vx = (Vx - Vy) mod 256 for every x, y in 0..F;
\* for x other than F it leaves VF = 1 iff Vx > Vy (0 when they are equal);
\* for x = F the difference, written last, is what VF holds.
C2_Sub ==
    [][(Executing(8) /\ N = 5) =>
        /\ v'[X] = (v[X] - v[Y] + 256) % 256
        /\ X # \hF => v'[\hF] = (IF v[X] > v[Y] THEN 1 ELSE 0)
        /\ \A r \in 0..(NUM_REGISTERS - 1) : r \notin {X, \hF} => v'[r] = v[r]]_vars

\* C2: an 8xy5 with x other than F and equal operands has left VF = 0.
C2_Witness ==
    /\ Executed(8) /\ N = 5
    /\ X # \hF /\ Y # \hF /\ X # Y
    /\ v[X] = 0 /\ v[Y] = 128
    /\ v[\hF] = 0

\* The pixels an n-row sprite at memory[idx..] shows at origin (x0, y0): bit
\* c of row r, counted from the most significant bit, is pixel
\* (x0 + c, y0 + r).
SpritePixels(mem, idx, n, x0, y0) ==
    {(y0 + r) * DISPLAY_WIDTH + x0 + c :
        <<r, c>> \in {rc \in (0..(n - 1)) \X (0..7) :
                        (Mem(mem, idx + rc[1]) \div (2 ^ (7 - rc[2]))) % 2 = 1}}

\* The sprite of the Dxyn about to run lies inside memory and inside the grid.
SpriteFits ==
    /\ i + N <= MEMORY_SIZE
    /\ (v[X] % DISPLAY_WIDTH) + 8 <= DISPLAY_WIDTH
    /\ v[Y] + N <= DISPLAY_HEIGHT

\* C3: Dxyn on an all-false display, with a sprite that fits inside the
\* grid, leaves true exactly the pixels (Vx mod 64 + c, Vy + r) whose sprite
\* bit is set, and leaves VF = 0.
C3_DrawOnBlank ==
    [][(Executing(\hD) /\ gfx = BlankDisplay /\ SpriteFits) =>
        /\ gfx' = SpritePixels(memory, i, N, v[X] % DISPLAY_WIDTH, v[Y])
        /\ v'[\hF] = 0]_vars


\* The Dxyn about to run, run twice (first, second): the second run starts
\* from the display and the VF the first one left.  Both runs complete, Vx
\* and Vy are the same for both, and the sprite has a set bit inside the grid.
DrawAgain(first, wraps) ==
    DrawSprite([v EXCEPT ![\hF] = first.vf], opcode, i, memory, first.gfx, wraps)

DrawnTwice(first, second) ==
    /\ first.fault = "none"
    /\ second.fault = "none"
    /\ X = \hF => first.vf = v[\hF]
    /\ Y = \hF => first.vf = v[\hF]
    /\ \E p \in SpritePixels(memory, i, N, v[X] % DISPLAY_WIDTH, v[Y]) :
          /\ p % DISPLAY_WIDTH >= v[X] % DISPLAY_WIDTH
          /\ p < DISPLAY_SIZE

\* C4, as stated: the same Dxyn executed twice in a row returns the display
\* to what it was before the first draw and leaves VF = 1.
C4_TwiceSetsFlag ==
    Executing(\hD) =>
        \A wraps \in BOOLEAN :
            LET first == DrawSprite(v, opcode, i, memory, gfx, wraps)
            IN  first.fault = "none" =>
                  LET second == DrawAgain(first, wraps)
                  IN  DrawnTwice(first, second) =>
                        /\ second.gfx = gfx
                        /\ second.vf = 1

\* C4, amended: the same Dxyn executed twice in a row returns the display to
\* what it was before the first draw; it leaves VF = 1 when the display was
\* blank before the first draw or the first draw turned a pixel on.
C4_DrawTwice ==
    Executing(\hD) =>
        \A wraps \in BOOLEAN :
            LET first == DrawSprite(v, opcode, i, memory, gfx, wraps)
            IN  first.fault = "none" =>
                  LET second == DrawAgain(first, wraps)
                  IN  DrawnTwice(first, second) =>
                        /\ second.gfx = gfx
                        /\ (gfx = BlankDisplay \/ first.gfx \ gfx # {}) =>
                              second.vf = 1

\* C4: the second of two equal draws has run: the window still shows the
\* first draw, the display is blank again and VF = 1.
C4_Witness ==
    /\ Executed(\hD)
    /\ file \in DrawPaths
    /\ pc = PROGRAM_START + 10
    /\ window # {}
    /\ gfx = BlankDisplay
    /\ v[\hF] = 1

\* C5: 00E0 leaves every pixel false and leaves drawFlag set.
C5_ClearSetsDrawFlag ==
    [][(pos = "emulate" /\ opcode = \h00E0) =>
        /\ gfx' = BlankDisplay
        /\ draw_flag' = TRUE]_vars

\* C6: Fx33 writes memory[I] = Vx / 100, memory[I+1] = (Vx / 10) mod 10 and
\* memory[I+2] = Vx mod 10.
C6_BcdThreeSlots ==
    [][(Executing(\hF) /\ KK = \h33 /\ i + 2 < MEMORY_SIZE) =>
        /\ Mem(memory', i) = v[X] \div 100
        /\ Mem(memory', i + 1) = (v[X] \div 10) % 10
        /\ Mem(memory', i + 2) = v[X] % 10]_vars

WordAt(mem, a) == Mem(mem, a) * 256 + Mem(mem, a + 1)

IsFx0A(op) == extract(op, \hF000, 3) = \hF /\ extract(op, \h00FF, 0) = \h0A

Pressed == {k \in 0..(NUM_KEYS - 1) : key[k]}

\* C7: a cycle on an Fx0A stored at address a.  The fetch moves PC from a to
\* a + 2 and nothing else of the machine; with no key pressed the execute
\* step moves PC back to a, where the same word is stored, and leaves
\* registers, I, memory, stack, display and timers alone; with a key pressed
\* it sets Vx to the lowest pressed index and leaves PC = a + 2; the redraw
\* ending the cycle changes none of them.
C7_KeyWait ==
    [][/\ (AtCycle /\ pc + 1 < MEMORY_SIZE /\ IsFx0A(WordAt(memory, pc))) =>
            /\ pc' = pc + 2
            /\ opcode' = WordAt(memory, pc)
            /\ UNCHANGED <<v, i, memory, stack, gfx, delay_timer, sound_timer>>
       /\ (pos = "emulate" /\ IsFx0A(opcode)) =>
            /\ WordAt(memory, pc - 2) = opcode
            /\ UNCHANGED <<i, memory, stack, gfx, delay_timer, sound_timer>>
            /\ IF Pressed = {}
               THEN /\ pc' = pc - 2
                    /\ WordAt(memory', pc') = opcode
                    /\ UNCHANGED v
               ELSE /\ pc' = pc
                    /\ v'[X] \in Pressed
                    /\ \A k \in Pressed : v'[X] <= k
                    /\ \A r \in 0..(NUM_REGISTERS - 1) : r # X => v'[r] = v[r]
            /\ pos' = "redraw"
       /\ (pos = "redraw" /\ IsFx0A(opcode)) =>
            UNCHANGED <<pc, v, i, memory, stack, gfx, delay_timer, sound_timer>>]_vars

\* C7: an Fx0A at 0x202 has waited at least one cycle and then taken the
\* lowest of two pressed keys.
C7_Witness ==
    /\ pos = "redraw"
    /\ IsFx0A(opcode)
    /\ counter >= 2 * CYCLE_PERIOD
    /\ Pressed = {2, 7}
    /\ v[X] = 2
    /\ pc = PROGRAM_START + 4

\* C8: a return sets PC to the address after the 2nnn it matches (the last
\* call still pending) and leaves the stack as that 2nnn found it; the call
\* site recorded for a 2nnn is where its word is stored.
C8_CallReturn ==
    [][/\ Executing(2) => WordAt(memory, pc - 2) = opcode
       /\ (Executing(0) /\ KK = \hEE /\ stack # << >>) =>
            /\ calls # << >>
            /\ pc' = calls[Len(calls)].site + 2
            /\ stack' = calls[Len(calls)].stack
            /\ pos' = "redraw"]_vars

\* C8: the inner of two nested calls has returned to the routine that made
\* it, whose own return address is still on the stack.
C8_Witness ==
    /\ Executed(0) /\ KK = \hEE
    /\ Len(stack) = 1
    /\ pc = PROGRAM_START + 8
    /\ stack[1] = PROGRAM_START + 2

\* The instruction patterns of the instruction table.
InTable(op) ==
    LET f == op \div 4096
        low == op % 256
        n == op % 16
    IN  \/ op \in {\h00E0, \h00EE}
        \/ f \in {1, 2, 3, 4, 6, 7, \hA, \hB, \hC, \hD}
        \/ f \in {5, 9} /\ n = 0
        \/ f = 8 /\ n \in {0, 1, 2, 3, 4, 5, 6, 7, \hE}
        \/ f = \hE /\ low \in {\h9E, \hA1}
        \/ f = \hF /\ low \in {\h07, \h15, \h18, \h1E, \h0A, \h29, \h33, \h55, \h65}

\* C9: a word that matches no pattern of the table ends in the decode error
\* with no effect on registers, PC, I, memory, stack or display.
C9_UnknownIsFatal ==
    [][(pos = "emulate" /\ ~InTable(opcode)) =>
        /\ pos' = "panic"
        /\ fault' = "OpCode not found"
        /\ UNCHANGED <<v, pc, i, memory, stack, gfx>>]_vars

\* C10: loading a file of more than 3584 bytes ends in an error before any
\* cycle, with nothing of it placed in memory; loading one of at most 3584
\* bytes puts byte k at memory[0x200 + k] and leaves memory below 0x200 as
\* it was.
C10_Load ==
    [][(pos = "load_game" /\ FileContent(file) # NoFile) =>
        LET bytes == FileContent(file)
        IN  IF Len(bytes) > MEMORY_SIZE - PROGRAM_START
            THEN /\ pos' = "panic"
                 /\ memory' = memory
            ELSE /\ pos' = "setup"
                 /\ \A k \in 0..(Len(bytes) - 1) :
                        Mem(memory', PROGRAM_START + k) = bytes[k + 1]
                 /\ \A a \in 0..(PROGRAM_START - 1) :
                        Mem(memory', a) = Mem(memory, a)]_vars

\* C11: a return on an empty call stack ends the run in the stack error with
\* PC, stack, registers, I, memory and display as they were; nothing runs
\* after an error; so at every moment the returns completed are at most the
\* calls completed, the difference being the depth of the stack.
C11_ReturnOnEmpty ==
    /\ [][/\ (Executing(0) /\ KK = \hEE /\ stack = << >>) =>
               /\ pos' = "panic"
               /\ fault' = "Failed to pop from stack!"
               /\ UNCHANGED <<pc, stack, v, i, memory, gfx, hist>>
          /\ pos # "panic"]_vars
    /\ [](/\ hist.returned <= hist.called
          /\ hist.called - hist.returned = Len(stack))

\* C11: after a call and its return, a second return has found the stack
\* empty.
C11_Witness ==
    /\ pos = "panic"
    /\ fault = "Failed to pop from stack!"
    /\ hist.called = 1 /\ hist.returned = 1
    /\ pc = PROGRAM_START + 4
    /\ stack = << >>

IsFx(op, low) == extract(op, \hF000, 3) = \hF /\ extract(op, \h00FF, 0) = low

\* A step of the 60 Hz block with the window open.
Ticking == pos = "loop_top" /\ counter % TIMER_PERIOD = 0 /\ pos' = "cycle"

\* C12: an execute step leaves delayTimer unchanged unless the opcode is
\* Fx15, which sets it to Vx, and leaves soundTimer unchanged unless the
\* opcode is Fx18, which sets it to Vx; a timer tick takes 1 from each timer
\* that is not 0 and leaves one that is 0 at 0; no other step changes a
\* timer, and both stay within 0..255.
C12_Timers ==
    /\ [][/\ pos = "emulate" =>
               /\ delay_timer' = (IF IsFx(opcode, \h15) THEN v[X] ELSE delay_timer)
               /\ sound_timer' = (IF IsFx(opcode, \h18) THEN v[X] ELSE sound_timer)
          /\ Ticking =>
               /\ delay_timer' = (IF delay_timer = 0 THEN 0 ELSE delay_timer - 1)
               /\ sound_timer' = (IF sound_timer = 0 THEN 0 ELSE sound_timer - 1)
          /\ (pos # "emulate" /\ ~Ticking) =>
               UNCHANGED <<delay_timer, sound_timer>>]_vars
    /\ [](delay_timer \in 0..255 /\ sound_timer \in 0..255)

\* C12: timers set to 3 and 2 by Fx15 and Fx18 have been through one timer
\* tick and several execute steps, and an Fx07 has read delayTimer = 2.
C12_Witness ==
    /\ Executed(\hF) /\ KK = \h07
    /\ v[X] = 2
    /\ delay_timer = 2
    /\ sound_timer = 1
    /\ hist.sounded /\ hist.ticks = 1

\* The pixels whose value differs between two displays.
Toggled(before, after) == (before \ after) \cup (after \ before)

\* C13: Dxyn toggles only pixels whose column is in Vx mod 64 .. 63 and
\* whose row is in Vy .. 31, and with Vy >= 32 it leaves the display
\* unchanged and VF = 0.
C13_Clipping ==
    [][Executing(\hD) =>
        /\ \A p \in Toggled(gfx, gfx') :
              /\ p % DISPLAY_WIDTH >= v[X] % DISPLAY_WIDTH
              /\ p \div DISPLAY_WIDTH >= v[Y]
              /\ p \div DISPLAY_WIDTH < DISPLAY_HEIGHT
        /\ v[Y] >= DISPLAY_HEIGHT => (gfx' = gfx /\ v'[\hF] = 0 /\ pos' = "redraw")]_vars

\* Register files that may stand between a store and the load that follows.
Overwritten ==
    { [r \in 0..(NUM_REGISTERS - 1) |-> 0],
      [r \in 0..(NUM_REGISTERS - 1) |-> 255],
      [r \in 0..(NUM_REGISTERS - 1) |-> 16 * r + 1] }

\* C14: with I + x <= 0xFFF, Fx55 leaves memory[I + k] = Vk for every k in
\* 0..x and every other byte, every register and I as they were; Fx65
\* leaves Vk = memory[I + k] for every k in 0..x and every register above x,
\* memory and I as they were; and a load from the memory a store has left,
\* with the same x and I, gives V0..Vx the values stored whatever the
\* registers held before the load.
C14_StoreLoad ==
    [][/\ (Executing(\hF) /\ KK = \h55 /\ i + X < MEMORY_SIZE) =>
            /\ \A k \in 0..X : Mem(memory', i + k) = v[k]
            /\ \A a \in 0..(MEMORY_SIZE - 1) :
                  (a < i \/ a > i + X) => Mem(memory', a) = Mem(memory, a)
            /\ UNCHANGED <<v, i>>
            /\ pos' = "redraw"
            /\ \A regs \in Overwritten :
                  LET loaded == LoadRegs(memory', i, regs, X)
                  IN  /\ loaded.fault = "none"
                      /\ \A k \in 0..(NUM_REGISTERS - 1) :
                            loaded.v[k] = IF k <= X THEN v[k] ELSE regs[k]
       /\ (Executing(\hF) /\ KK = \h65 /\ i + X < MEMORY_SIZE) =>
            /\ \A k \in 0..(NUM_REGISTERS - 1) :
                  v'[k] = IF k <= X THEN Mem(memory, i + k) ELSE v[k]
            /\ UNCHANGED <<memory, i>>
            /\ pos' = "redraw"]_vars

\* C14: V0..VF, stored by FF55 in the last 16 bytes of memory and then set
\* to 0 where they were not, hold the stored values again after FF65.
C14_Witness ==
    /\ Executed(\hF) /\ KK = \h65
    /\ X = \hF
    /\ i + X = MEMORY_SIZE - 1
    /\ v[0] = \h11 /\ v[1] = \h22 /\ v[2] = 0 /\ v[\hF] = \h33
    /\ Mem(memory, i) = \h11 /\ Mem(memory, MEMORY_SIZE - 1) = \h33

\* The five bytes at a are the font glyph of hexadecimal digit d.
GlyphAt(mem, a, d) == \A k \in 0..4 : Mem(mem, a + k) = FONTSET[5 * d + k + 1]

\* C15: Fx29 sets I = 0x50 + 5 * (Vx & 0x0F) and nothing else; once the
\* program is loaded, the five bytes at 0x50 + 5 * d are the glyph of d for
\* every d in 0..F as long as no Fx33 or Fx55 has written into
\* 0x050..0x09F; and a step that changes a byte of memory is an Fx33 or an
\* Fx55 (or, before the first cycle, the initialization and the load).
C15_Glyphs ==
    /\ [][/\ (Executing(\hF) /\ KK = \h29) =>
               /\ i' = FONTSET_OFFSET + 5 * (v[X] % 16)
               /\ pos' = "redraw"
               /\ UNCHANGED <<memory, v, pc, stack, gfx>>
               /\ ~hist.font_written => GlyphAt(memory', i', v[X] % 16)
          /\ memory' # memory =>
               \/ pos \in {"init", "load_game"}
               \/ IsFx(opcode, \h33) /\ pos = "emulate"
               \/ IsFx(opcode, \h55) /\ pos = "emulate"
          /\ (hist.font_written' /\ ~hist.font_written) =>
               \E a \in FONTSET_OFFSET..(FONTSET_OFFSET + Len(FONTSET) - 1) :
                   /\ a >= i
                   /\ a <= i + NUM_REGISTERS - 1]_vars
    /\ []((pos \notin {"init", "load_game"} /\ ~hist.font_written) =>
            \A d \in 0..15 : GlyphAt(memory, FONTSET_OFFSET + 5 * d, d))

\* C15: Fx29 with Vx = 0xA7 has set I to the glyph of 7.
C15_Witness ==
    /\ Executed(\hF) /\ KK = \h29
    /\ v[X] = \hA7
    /\ i = FONTSET_OFFSET + 35
    /\ ~hist.font_written
    /\ <<Mem(memory, i), Mem(memory, i + 1), Mem(memory, i + 2),
         Mem(memory, i + 3), Mem(memory, i + 4)>> = <<\hF0, \h10, \h20, \h40, \h40>>

\* C16: Fx1E sets I to (I + Vx) mod 2^16, then VF to 1 if the new I is above
\* 1000 and to 0 otherwise, and completes whatever I is.
C16_AddToIndex ==
    [][(Executing(\hF) /\ KK = \h1E) =>
        /\ i' = (i + v[X]) % 65536
        /\ v'[\hF] = (IF i' > 1000 THEN 1 ELSE 0)
        /\ pos' = "redraw"]_vars

\* Every register but Vx and VF is left as it was.
OthersKept == \A r \in 0..(NUM_REGISTERS - 1) : r \notin {X, \hF} => v'[r] = v[r]

\* C17, as stated: for every x in 0..F and Vx = a, 8xyE leaves VF = a & 0x80
\* and Vx = (2 * a) mod 256, 8xy6 leaves VF = a & 1 and Vx = a div 2, and
\* neither changes another register.
C17_ShiftAnyRegister ==
    [][/\ (Executing(8) /\ N = \hE) =>
            /\ v'[\hF] = (IF v[X] >= 128 THEN 128 ELSE 0)
            /\ v'[X] = (2 * v[X]) % 256
            /\ OthersKept
       /\ (Executing(8) /\ N = 6) =>
            /\ v'[\hF] = v[X] % 2
            /\ v'[X] = v[X] \div 2
            /\ OthersKept]_vars

\* C17, amended: for x other than F and Vx = a, 8xyE leaves VF = a & 0x80
\* (0 or 0x80) and Vx = (2 * a) mod 256, and 8xy6 leaves VF = a & 1 and
\* Vx = a div 2; for x = F the shift, applied last to the flag just written,
\* leaves VF = 0; neither changes another register.
C17_Shift ==
    [][/\ (Executing(8) /\ N = \hE) =>
            /\ X # \hF => /\ v'[\hF] = (IF v[X] >= 128 THEN 128 ELSE 0)
                          /\ v'[X] = (2 * v[X]) % 256
            /\ X = \hF => v'[\hF] = 0
            /\ OthersKept
       /\ (Executing(8) /\ N = 6) =>
            /\ X # \hF => /\ v'[\hF] = v[X] % 2
                          /\ v'[X] = v[X] \div 2
            /\ X = \hF => v'[\hF] = 0
            /\ OthersKept]_vars

\* C17: an 8xyE with x and y other than F has shifted 255 to 254, left
\* VF = 0x80 and left Vy = 1.
C17_Witness ==
    /\ Executed(8) /\ N = \hE
    /\ X # \hF /\ Y # \hF /\ X # Y
    /\ v[X] = 254
    /\ v[Y] = 1
    /\ v[\hF] = \h80

\* The two runtime errors of the error taxonomy.
DocumentedErrors == {"OpCode not found", "Failed to pop from stack!"}

\* C18: with a program file of at most 3584 bytes, a run ends abnormally
\* only in the decode error or the stack underflow: no index leaves its
\* range and no addition or subtraction leaves its width.
C18_OnlyDocumentedErrors ==
    (/\ FileContent(file) # NoFile
     /\ Len(FileContent(file)) <= MEMORY_SIZE - PROGRAM_START
     /\ fault # "none")
        => fault \in DocumentedErrors

\* C19: between a timer tick and the one before it lie exactly 32 loop
\* iterations and exactly 8 instruction cycles.
C19_FixedRatio ==
    [][(pos = "loop_top" /\ counter % TIMER_PERIOD = 0 /\ hist.ticked) =>
        /\ hist.iterations = 32
        /\ hist.cycles = 8]_vars

\* The run has ended: the window was closed, or a panic.
Halted == pos \in {"exit", "panic"}

Silent == sound_timer = 0 /\ sink = "paused"

\* C20: after an Fx18 that set soundTimer to s, and until the next Fx18,
\* soundTimer is s less the timer ticks since, and 0 from s ticks on; from
\* the tick after those on the tone is paused; a timer tick sets the tone to
\* playing if soundTimer was not 0 and to paused if it was; and, the loop
\* running on, every Fx18 is followed by a state with soundTimer = 0 and the
\* tone paused, unless the run ends or another Fx18 is executed first.
C20_SoundStops ==
    /\ [](hist.sounded =>
            /\ sound_timer = (IF hist.ticks >= hist.sound THEN 0
                              ELSE hist.sound - hist.ticks)
            /\ hist.ticks > hist.sound => Silent)
    /\ [][/\ Ticking => sink' = (IF sound_timer # 0 THEN "playing" ELSE "paused")
          /\ (Silent /\ ~(pos = "emulate" /\ IsFx(opcode, \h18))) => Silent'
          /\ (pos = "emulate" /\ IsFx(opcode, \h18)) =>
               /\ hist.sounded' /\ hist.sound' = v[X] /\ hist.ticks' = 0
               /\ sound_timer' = v[X]
          /\ (hist.sounded /\ ~(pos = "emulate" /\ IsFx(opcode, \h18))) =>
               /\ hist.sound' = hist.sound
               /\ hist.ticks' = (IF Ticking /\ hist.ticks <= hist.sound
                                 THEN hist.ticks + 1 ELSE hist.ticks)]_vars
    /\ (pos = "redraw" /\ IsFx(opcode, \h18))
          ~> (Halted \/ Silent \/ (pos = "emulate" /\ IsFx(opcode, \h18)))

\* C20: three timer ticks after an Fx18 that set soundTimer to 2, the timer
\* is 0 and the tone, playing until then, is paused.
C20_Witness ==
    /\ hist.sounded /\ hist.sound = 2 /\ hist.ticks = 3
    /\ pos = "cycle"
    /\ Silent

====
